---------------------------- MODULE Spec2Model ----------------------------
(***************************************************************************)
(* The GameOfLife canvas background of the landing page                    *)
(* (src/src/components/Orbit.tsx, lines 638-782): one effect run of the    *)
(* component is one animation session.  The session owns a toroidal grid   *)
(* of cells {alive, opacity}; draw() fades the opacities, draws the        *)
(* visible cells, computes the next generation and re-arms itself through  *)
(* setTimeout(125) -> requestAnimationFrame(draw).  The effect cleanup     *)
(* calls cancelAnimationFrame(animationFrameId).                           *)
(*                                                                         *)
(* Opacities are held in tenths: 0.5 is 5, transitionSpeed 0.2 is 2, the   *)
(* literal 1 of the test "opacity < 1" is 10.  In IEEE doubles the values  *)
(* reachable from {0, 0.5} under min(o + 0.2, 0.5) and max(o - 0.2, 0) are *)
(* exactly 0, 0.09999999999999998, 0.2, 0.3, 0.4 and 0.5, one per tenth,   *)
(* with the same order and the same clamping, so the tenths are exact.     *)
(*                                                                         *)
(* The page's useScroll hook (src/unnamed/part_002) is modelled at the end *)
(* of the model, in SpecScroll.                                            *)
(***************************************************************************)
EXTENDS Integers, Sequences, FiniteSets

(***************************************************************************)
(* Program constants.                                                      *)
(***************************************************************************)
cellSize == 6

transitionSpeed == 2

visibleCap == 5

fullOpacity == 10

(***************************************************************************)
(* Bounds of the model.  The page's canvas is 1500 x 600 (250 x 100       *)
(* cells); the model runs the same code on small canvases.                 *)
(*   MaxFull: a grid of at most MaxFull cells starts from every alive and  *)
(*     opacity assignment the random initialisation can produce, and its   *)
(*     canvas is also taken with cellSize - 1 spare pixels in both         *)
(*     dimensions;                                                         *)
(*   MaxCells, MaxLine: a grid of at most MaxCells cells whose sides are   *)
(*     at most MaxLine starts from every alive assignment, with opacity    *)
(*     equal or opposite to alive;                                         *)
(*   MaxLine..MaxSide: sides of the larger grids, which start from the     *)
(*     seeded patterns of SeedAlive, painted the same two ways;            *)
(*   MaxTicks: number of draw() calls followed in one session;             *)
(*   MaxPairCells, MaxPairTicks: cells of each grid and draw() calls of    *)
(*     each session when two sessions run on one page (SpecPair);          *)
(*   MaxScroll, MaxThreshold: largest scroll position and threshold of     *)
(*     useScroll; MaxUpdates: queued setScrolled updates a render has not  *)
(*     yet applied; MaxCallbacks: onScroll closures made in one mount.     *)
(***************************************************************************)
MaxFull == 4

MaxCells == 6

MaxLine == 3

MaxSide == 5

MaxTicks == 4

MaxPairCells == 2

MaxPairTicks == 2

MaxScroll == 3

MaxThreshold == 2

MaxUpdates == 2

MaxCallbacks == 3

VARIABLES
    width,              \* canvas.width
    height,             \* canvas.height
    status,             \* position of the effect: "idle", "init" (grid built,
                        \* draw not yet called), "mounted", "unmounted", "noctx"
    grid,               \* let grid: Grid, a function from <<row, col>> to a cell
    mapping,            \* TRUE while a draw() is inside grid.map (SpecStep only)
    next,               \* the cells grid.map has produced so far
    timers,             \* number of pending setTimeout callbacks
    frames,             \* handles of the pending requestAnimationFrame requests
    animationFrameId,   \* let animationFrameId: 0 while still unassigned
    lastId,             \* last handle requestAnimationFrame returned
    ticks,              \* number of draw() calls completed
    arcs,               \* the ctx.arc calls of the last draw(), in call order
    aliveRun,           \* per cell: k > 0 when the cell had opacity 0 before the
                        \* k-th last draw and was alive in each draw since
    deadRun,            \* per cell: k > 0 when the cell had opacity 0.5 before
                        \* the k-th last draw and was dead in each draw since
    other,              \* a second GameOfLife on the page: the state of its
                        \* effect, as a record (never mounted except in SpecPair)
    hook                \* a component that calls useScroll, and the window's
                        \* scroll position and scroll listeners, as a record
                        \* (idle except in SpecScroll)

vars == <<width, height, status, grid, mapping, next, timers, frames,
          animationFrameId, lastId, ticks, arcs, aliveRun, deadRun, other, hook>>

(***************************************************************************)
(* Dimensions (lines 651-652).                                             *)
(***************************************************************************)
colsOf(w) == w \div cellSize

\* Math.ceil for Math.floor in line 652
rowsOfCeil(h) == (h + cellSize - 1) \div cellSize

\* line 652 clamped to at least one row
rowsOfClamped(h) == IF h \div cellSize < 1 THEN 1 ELSE h \div cellSize

rowsOf(h) == h \div cellSize

cols == colsOf(width)

rows == rowsOf(height)

CellsOf(r, c) == (0 .. r - 1) \X (0 .. c - 1)

Cells == CellsOf(rows, cols)

(***************************************************************************)
(* The canvases of the model.                                              *)
(***************************************************************************)
SmallShape(r, c) ==
    /\ r * c <= MaxCells
    /\ r = 0 \/ c = 0 \/ (r <= MaxLine /\ c <= MaxLine)

SeededShape(r, c) ==
    /\ ~SmallShape(r, c)
    /\ r \in MaxLine .. MaxSide
    /\ c \in MaxLine .. MaxSide

Pixels == 0 .. MaxSide * cellSize + cellSize - 1

CanvasSizes ==
    { s \in Pixels \X Pixels :
        LET c == colsOf(s[1])
            r == rowsOf(s[2])
            spare == {s[1] % cellSize, s[2] % cellSize}
        IN  /\ SmallShape(r, c) \/ SeededShape(r, c)
            /\ spare = {0} \/ spare = {cellSize - 1}
            /\ spare # {0} => (SmallShape(r, c) /\ r * c <= MaxFull) }

(***************************************************************************)
(* Initial grids (lines 656-665).  alive and opacity come from two         *)
(* separate Math.random() calls, so every combination of alive with        *)
(* opacity 0 or 0.5 can be produced.                                       *)
(***************************************************************************)
InitialCells == [alive : BOOLEAN, opacity : {0, visibleCap}]

Torus(r, c, p) == <<p[1] % r, p[2] % c>>

SeedAlive(r, c) ==
    UNION { { {p},
              {p, Torus(r, c, <<p[1], p[2] + 1>>), Torus(r, c, <<p[1] + 1, p[2]>>),
                  Torus(r, c, <<p[1] + 1, p[2] + 1>>)},
              {Torus(r, c, <<p[1], p[2] + c - 1>>), p, Torus(r, c, <<p[1], p[2] + 1>>)} }
            : p \in CellsOf(r, c) }

\* Grids with the given live sets and opacity equal or opposite to alive.
Painted(r, c, lives) ==
    UNION { { [p \in CellsOf(r, c) |->
                 [alive |-> p \in live, opacity |-> IF p \in live THEN visibleCap ELSE 0]],
              [p \in CellsOf(r, c) |->
                 [alive |-> p \in live, opacity |-> IF p \in live THEN 0 ELSE visibleCap]] }
            : live \in lives }

SampleGrids(r, c) ==
    IF SmallShape(r, c) THEN Painted(r, c, SUBSET CellsOf(r, c))
    ELSE Painted(r, c, SeedAlive(r, c))

InitialGrids(r, c) ==
    IF SmallShape(r, c) /\ r * c <= MaxFull THEN [CellsOf(r, c) -> InitialCells]
    ELSE SampleGrids(r, c)

(***************************************************************************)
(* countNeighbors (lines 677-691).  jsRem is JavaScript's %, whose result  *)
(* takes the sign of the dividend.                                         *)
(***************************************************************************)
jsRem(a, n) == IF a >= 0 THEN a % n ELSE -((-a) % n)

\* wrap with the edges clamped instead of wrapped
wrapClamped(x, i, n) ==
    IF x + i < 0 THEN 0 ELSE IF x + i >= n THEN n - 1 ELSE x + i

wrap(x, i, n) == jsRem(x + i + n, n)

\* line 685 counting the visible cells instead of the live ones
aliveBitByOpacity(g, p) == IF g[p].opacity > 0 THEN 1 ELSE 0

aliveBit(g, p) == IF g[p].alive THEN 1 ELSE 0

\* lines 680-687, the loops over i and j unrolled: one row of the 3 x 3
\* window, then the three rows
sumRow(g, row, y) ==
    aliveBit(g, <<row, wrap(y, -1, cols)>>) + aliveBit(g, <<row, wrap(y, 0, cols)>>)
        + aliveBit(g, <<row, wrap(y, 1, cols)>>)

sumWindow(g, x, y) ==
    sumRow(g, wrap(x, -1, rows), y) + sumRow(g, wrap(x, 0, rows), y)
        + sumRow(g, wrap(x, 1, rows), y)

\* countNeighbors without line 689
countNeighborsWithSelf(g, x, y) == sumWindow(g, x, y)

\* countNeighbors special-cased to count each neighbouring cell once
countNeighborsDistinct(g, x, y) ==
    Cardinality({q \in ({wrap(x, i, rows) : i \in {-1, 0, 1}}
                          \X {wrap(y, j, cols) : j \in {-1, 0, 1}}) \ {<<x, y>>} :
                     g[q].alive})

countNeighbors(g, x, y) == sumWindow(g, x, y) - aliveBit(g, <<x, y>>)

(***************************************************************************)
(* draw, first pass (lines 709-735): opacity update and drawing of one     *)
(* cell, then of all cells in row-major order.                             *)
(***************************************************************************)
min(a, b) == IF a < b THEN a ELSE b

max(a, b) == IF a > b THEN a ELSE b

\* fade with the cap of line 714 at 1, the bound its test uses
fadeToFull(cell) ==
    IF cell.alive /\ cell.opacity < fullOpacity
        THEN min(cell.opacity + transitionSpeed, fullOpacity)
    ELSE IF ~cell.alive /\ cell.opacity > 0
        THEN max(cell.opacity - transitionSpeed, 0)
    ELSE cell.opacity

\* fade without the floor of line 718
fadeNoFloor(cell) ==
    IF cell.alive /\ cell.opacity < fullOpacity
        THEN min(cell.opacity + transitionSpeed, visibleCap)
    ELSE IF ~cell.alive /\ cell.opacity > 0
        THEN cell.opacity - transitionSpeed
    ELSE cell.opacity

\* fade with the test of line 717 as opacity > transitionSpeed
fadeStrictFloor(cell) ==
    IF cell.alive /\ cell.opacity < fullOpacity
        THEN min(cell.opacity + transitionSpeed, visibleCap)
    ELSE IF ~cell.alive /\ cell.opacity > transitionSpeed
        THEN max(cell.opacity - transitionSpeed, 0)
    ELSE cell.opacity

\* fade with dead cells fading at half of transitionSpeed
fadeHalfSpeed(cell) ==
    IF cell.alive /\ cell.opacity < fullOpacity
        THEN min(cell.opacity + transitionSpeed, visibleCap)
    ELSE IF ~cell.alive /\ cell.opacity > 0
        THEN max(cell.opacity - transitionSpeed \div 2, 0)
    ELSE cell.opacity

fade(cell) ==
    IF cell.alive /\ cell.opacity < fullOpacity
        THEN min(cell.opacity + transitionSpeed, visibleCap)
    ELSE IF ~cell.alive /\ cell.opacity > 0
        THEN max(cell.opacity - transitionSpeed, 0)
    ELSE cell.opacity

\* the test of line 722 as >= 0
visibleOrZero(opacity) == opacity >= 0

visible(opacity) == opacity > 0

\* lines 726-727 with the row and the column exchanged
arcOfSwapped(i, j, opacity) ==
    [x |-> i * cellSize + cellSize \div 2,
     y |-> j * cellSize + cellSize \div 2,
     opacity |-> opacity]

arcOf(i, j, opacity) ==
    [x |-> j * cellSize + cellSize \div 2,
     y |-> i * cellSize + cellSize \div 2,
     opacity |-> opacity]

RECURSIVE fadeAndDraw(_, _, _)
fadeAndDraw(g, k, out) ==
    IF k = rows * cols THEN [grid |-> g, arcs |-> out]
    ELSE LET i == k \div cols
             j == k % cols
             o == fade(g[<<i, j>>])
         IN  fadeAndDraw([g EXCEPT ![<<i, j>>].opacity = o], k + 1,
                         IF visible(o) THEN Append(out, arcOf(i, j, o)) ELSE out)

(***************************************************************************)
(* draw, second pass (lines 738-758): the next generation.                 *)
(***************************************************************************)
\* the survival rule of line 747 without its upper bound
willBeAliveNoUpper(alive, neighbors) ==
    IF alive THEN neighbors >= 2 ELSE neighbors = 3

\* the survival rule of line 747 with > 2 for >= 2
willBeAliveStrict(alive, neighbors) ==
    IF alive THEN neighbors > 2 /\ neighbors <= 3 ELSE neighbors = 3

willBeAlive(alive, neighbors) ==
    IF alive THEN neighbors >= 2 /\ neighbors <= 3 ELSE neighbors = 3

\* the map callback reading a grid that is updated in place
mapSourceInPlace(g, nx) ==
    [p \in DOMAIN g |-> IF p \in DOMAIN nx THEN nx[p] ELSE g[p]]

\* line 740: the grid the map callback counts neighbours in
mapSource(g, nx) == g

\* the map callback resetting opacity to match the new alive value
nextCellRepainted(g, p) ==
    LET a == willBeAlive(g[p].alive, countNeighbors(g, p[1], p[2]))
    IN  [alive |-> a, opacity |-> IF a THEN visibleCap ELSE 0]

nextCell(g, p) ==
    [alive |-> willBeAlive(g[p].alive, countNeighbors(g, p[1], p[2])),
     opacity |-> g[p].opacity]

nextGeneration(g) == [p \in DOMAIN g |-> nextCell(g, p)]

(***************************************************************************)
(* Bookkeeping for the fades: how long a cell has been fading in from 0    *)
(* or out from 0.5.  Not program state.                                    *)
(***************************************************************************)
runUp(cell, run) ==
    IF ~cell.alive THEN 0
    ELSE IF cell.opacity = 0 THEN 1
    ELSE IF run > 0 THEN min(run + 1, 3)
    ELSE 0

runDown(cell, run) ==
    IF cell.alive THEN 0
    ELSE IF cell.opacity = visibleCap THEN 1
    ELSE IF run > 0 THEN min(run + 1, 3)
    ELSE 0

(***************************************************************************)
(* Scheduling calls (lines 761-763 and 771) on the number of pending       *)
(* timers and on the set of pending animation-frame handles.               *)
(***************************************************************************)
\* draw arming a repeating pair of timers instead of one
setTimeoutTwice(n) == n + 2

\* draw returning without arming the timer
setTimeoutNever(n) == n

setTimeout(n) == n + 1

\* cancelAnimationFrame dropping whatever frame is pending
cancelAnyFrame(fs, id) == {}

\* cancelAnimationFrame having no effect
cancelNoFrame(fs, id) == fs

cancelAnimationFrame(fs, id) == fs \ {id}

(***************************************************************************)
(* The session.                                                            *)
(***************************************************************************)
Init ==
    /\ \E s \in CanvasSizes : width = s[1] /\ height = s[2]
    /\ status = "idle"
    /\ grid = <<>>
    /\ mapping = FALSE
    /\ next = <<>>
    /\ timers = 0
    /\ frames = {}
    /\ animationFrameId = 0
    /\ lastId = 0
    /\ ticks = 0
    /\ arcs = <<>>
    /\ aliveRun = <<>>
    /\ deadRun = <<>>
    /\ other = [status |-> "idle", grid |-> <<>>, timers |-> 0, frames |-> {},
                animationFrameId |-> 0, ticks |-> 0, arcs |-> <<>>]
    /\ hook = [status |-> "idle", threshold |-> 0, scrolled |-> FALSE,
               updates |-> <<>>, callback |-> 0, attached |-> 0,
               effect |-> FALSE, lastFn |-> 0, scrollY |-> 0, listeners |-> {}]

\* lines 644-647: no canvas or no 2d context, the effect returns at once
MountNoContext ==
    /\ status = "idle"
    /\ status' = "noctx"
    /\ UNCHANGED <<hook, other, width, height, grid, mapping, next, timers, frames,
                   animationFrameId, lastId, ticks, arcs, aliveRun, deadRun>>

\* lines 649-665: the effect builds the random grid
MountFrom(grids) ==
    /\ status = "idle"
    /\ \E g \in grids : grid' = g
    /\ status' = "init"
    /\ aliveRun' = [p \in Cells |-> 0]
    /\ deadRun' = [p \in Cells |-> 0]
    /\ UNCHANGED <<hook, other, width, height, mapping, next, timers, frames,
                   animationFrameId, lastId, ticks, arcs>>

Mount == MountFrom(InitialGrids(rows, cols))

\* draw computing the next generation before the opacity pass
drawStepFirst ==
    LET pass == fadeAndDraw(nextGeneration(grid), 0, <<>>)
    IN  /\ ticks < MaxTicks
        /\ grid' = pass.grid
        /\ arcs' = pass.arcs
        /\ timers' = setTimeout(timers)
        /\ ticks' = ticks + 1
        /\ aliveRun' = [p \in Cells |-> runUp(grid[p], aliveRun[p])]
        /\ deadRun' = [p \in Cells |-> runDown(grid[p], deadRun[p])]
        /\ UNCHANGED <<hook, other, width, height, mapping, next, animationFrameId, lastId>>

\* lines 703-764: one whole call of draw
draw ==
    LET pass == fadeAndDraw(grid, 0, <<>>)
    IN  /\ ticks < MaxTicks
        /\ grid' = nextGeneration(pass.grid)
        /\ arcs' = pass.arcs
        /\ timers' = setTimeout(timers)
        /\ ticks' = ticks + 1
        /\ aliveRun' = [p \in Cells |-> runUp(grid[p], aliveRun[p])]
        /\ deadRun' = [p \in Cells |-> runDown(grid[p], deadRun[p])]
        /\ UNCHANGED <<hook, other, width, height, mapping, next, animationFrameId, lastId>>

\* line 767: the effect calls draw() and returns the cleanup
Start ==
    /\ status = "init"
    /\ ~mapping
    /\ draw
    /\ status' = "mounted"
    /\ UNCHANGED frames

\* lines 761-763: the 125 ms timer expires and requests an animation frame
TimerFire ==
    /\ timers > 0
    /\ ~mapping
    /\ timers' = timers - 1
    /\ lastId' = lastId + 1
    /\ animationFrameId' = lastId + 1
    /\ frames' = frames \cup {lastId + 1}
    /\ UNCHANGED <<hook, other, width, height, status, grid, mapping, next, ticks, arcs,
                   aliveRun, deadRun>>

\* line 762: the browser runs the requested frame, which calls draw
Frame ==
    /\ ~mapping
    /\ \E id \in frames : frames' = frames \ {id}
    /\ draw
    /\ UNCHANGED status

\* line 771: cancelAnimationFrame acts on the page's one list of pending
\* frames, which holds the requests of every component on the page;
\* cancelling a handle that is not pending (or undefined) does nothing
cancelOwnFrame(id) ==
    LET pending == cancelAnimationFrame(frames \cup other.frames, id)
    IN  /\ frames' = frames \cap pending
        /\ other' = [other EXCEPT !.frames = @ \cap pending]

\* lines 770-772: the effect cleanup
Cleanup ==
    /\ status = "mounted"
    /\ ~mapping
    /\ status' = "unmounted"
    /\ cancelOwnFrame(animationFrameId)
    /\ UNCHANGED <<hook, width, height, grid, mapping, next, timers, animationFrameId,
                   lastId, ticks, arcs, aliveRun, deadRun>>

Next ==
    \/ MountNoContext
    \/ Mount
    \/ Start
    \/ TimerFire
    \/ Frame
    \/ Cleanup

Spec == Init /\ [][Next]_vars

\* Frame can take a step: a step of Frame always increases ticks, so this
\* is ENABLED <<Frame>>_vars.
FrameDue == ~mapping /\ frames # {} /\ ticks < MaxTicks

\* The browser fires every armed timer and delivers every requested frame:
\* weak fairness of TimerFire and of Frame, the latter written out with
\* FrameDue for ENABLED <<Frame>>_vars.
SpecLive ==
    /\ Spec
    /\ WF_vars(TimerFire)
    /\ ([]<>(~FrameDue) \/ []<><<Frame>>_vars)

(***************************************************************************)
(* The same session with draw() followed through grid.map one callback     *)
(* invocation at a time (lines 738-758).  The cells are taken in any       *)
(* order; next holds the cells produced so far and grid is replaced only   *)
(* when the map has returned (line 758).  Nothing else runs while draw()   *)
(* is on the stack.  Canvases are the small ones, without spare pixels.    *)
(***************************************************************************)
InitStep ==
    /\ Init
    /\ SmallShape(rows, cols)
    /\ width % cellSize = 0
    /\ height % cellSize = 0

MountSample == MountFrom(SampleGrids(rows, cols))

\* lines 703-735: draw up to the end of the first pass
beginDraw ==
    LET pass == fadeAndDraw(grid, 0, <<>>)
    IN  /\ ticks < MaxTicks
        /\ ~mapping
        /\ grid' = pass.grid
        /\ arcs' = pass.arcs
        /\ mapping' = TRUE
        /\ next' = <<>>
        /\ aliveRun' = [p \in Cells |-> runUp(grid[p], aliveRun[p])]
        /\ deadRun' = [p \in Cells |-> runDown(grid[p], deadRun[p])]
        /\ UNCHANGED <<hook, other, width, height, status, timers, animationFrameId, lastId, ticks>>

StartMap ==
    /\ status = "init"
    /\ beginDraw
    /\ UNCHANGED frames

FrameMap ==
    /\ \E id \in frames : frames' = frames \ {id}
    /\ beginDraw

\* lines 739-754: the map callback on one cell
MapCell ==
    /\ mapping
    /\ \E p \in Cells \ DOMAIN next :
          next' = [q \in DOMAIN next \cup {p} |->
                      IF q = p THEN nextCell(mapSource(grid, next), p) ELSE next[q]]
    /\ UNCHANGED <<hook, other, width, height, status, grid, mapping, timers, frames,
                   animationFrameId, lastId, ticks, arcs, aliveRun, deadRun>>

\* lines 758-764: grid = next, the timer is armed and draw returns
MapEnd ==
    /\ mapping
    /\ DOMAIN next = Cells
    /\ grid' = next
    /\ next' = <<>>
    /\ mapping' = FALSE
    /\ timers' = setTimeout(timers)
    /\ ticks' = ticks + 1
    /\ status' = IF status = "init" THEN "mounted" ELSE status
    /\ UNCHANGED <<hook, other, width, height, frames, animationFrameId, lastId, arcs,
                   aliveRun, deadRun>>

NextStep ==
    \/ MountNoContext
    \/ MountSample
    \/ StartMap
    \/ FrameMap
    \/ MapCell
    \/ MapEnd
    \/ TimerFire
    \/ Cleanup

SpecStep == InitStep /\ [][NextStep]_vars

(***************************************************************************)
(* The cleanup function the effect returns (lines 770-772), called once    *)
(* more by its holder after the component has been unmounted.              *)
(***************************************************************************)
CleanupAgain ==
    /\ status = "unmounted"
    /\ ~mapping
    /\ cancelOwnFrame(animationFrameId)
    /\ UNCHANGED <<hook, width, height, status, grid, mapping, next, timers,
                   animationFrameId, lastId, ticks, arcs, aliveRun, deadRun>>

NextRestop == Next \/ CleanupAgain

SpecRestop == Init /\ [][NextRestop]_vars

(***************************************************************************)
(* Two GameOfLife components on one page.  Each effect run has its own     *)
(* closure (grid, animationFrameId, draw); the page shares the timer and   *)
(* frame services, so handles come from one counter and pending frames     *)
(* are in one list.  Both canvases have the size of line 777.  The first   *)
(* component is the session above, the second is the record other.         *)
(***************************************************************************)
InitPair ==
    /\ Init
    /\ rows * cols <= MaxPairCells
    /\ width % cellSize = 0
    /\ height % cellSize = 0

PairFrame == ticks < MaxPairTicks /\ Frame

\* lines 649-665 in the second component
OtherMount ==
    /\ other.status = "idle"
    /\ \E g \in SampleGrids(rows, cols) :
         other' = [other EXCEPT !.status = "init", !.grid = g]
    /\ UNCHANGED <<hook, width, height, status, grid, mapping, next, timers, frames,
                   animationFrameId, lastId, ticks, arcs, aliveRun, deadRun>>

\* lines 703-764 in the second component
otherDraw(o) ==
    LET pass == fadeAndDraw(o.grid, 0, <<>>)
    IN  [o EXCEPT !.grid = nextGeneration(pass.grid),
                  !.arcs = pass.arcs,
                  !.timers = setTimeout(@),
                  !.ticks = @ + 1]

\* line 767 in the second component
OtherStart ==
    /\ other.status = "init"
    /\ other' = [otherDraw(other) EXCEPT !.status = "mounted"]
    /\ UNCHANGED <<hook, width, height, status, grid, mapping, next, timers, frames,
                   animationFrameId, lastId, ticks, arcs, aliveRun, deadRun>>

\* lines 761-763 in the second component
OtherTimerFire ==
    /\ other.timers > 0
    /\ lastId' = lastId + 1
    /\ other' = [other EXCEPT !.timers = @ - 1,
                              !.animationFrameId = lastId + 1,
                              !.frames = @ \cup {lastId + 1}]
    /\ UNCHANGED <<hook, width, height, status, grid, mapping, next, timers, frames,
                   animationFrameId, ticks, arcs, aliveRun, deadRun>>

\* the frame requested in line 762 runs draw of the second component
OtherFrame ==
    /\ other.ticks < MaxPairTicks
    /\ \E id \in other.frames :
         other' = otherDraw([other EXCEPT !.frames = @ \ {id}])
    /\ UNCHANGED <<hook, width, height, status, grid, mapping, next, timers, frames,
                   animationFrameId, lastId, ticks, arcs, aliveRun, deadRun>>

\* lines 770-772 in the second component
OtherCleanup ==
    /\ other.status = "mounted"
    /\ LET pending == cancelAnimationFrame(frames \cup other.frames,
                                           other.animationFrameId)
       IN  /\ frames' = frames \cap pending
           /\ other' = [other EXCEPT !.status = "unmounted",
                                     !.frames = @ \cap pending]
    /\ UNCHANGED <<hook, width, height, status, grid, mapping, next, timers,
                   animationFrameId, lastId, ticks, arcs, aliveRun, deadRun>>

NextPair ==
    \/ MountSample
    \/ Start
    \/ TimerFire
    \/ PairFrame
    \/ Cleanup
    \/ OtherMount
    \/ OtherStart
    \/ OtherTimerFire
    \/ OtherFrame
    \/ OtherCleanup

SpecPair == InitPair /\ [][NextPair]_vars

(***************************************************************************)
(* useScroll (src/unnamed/part_002, lines 28-50) called by one component.  *)
(* A render returns the state scrolled; onScroll is the useCallback        *)
(* closure over the threshold of the render that made it, new when the     *)
(* threshold changes; the effect (lines 38-47) has onScroll as its only    *)
(* dependency.  setScrolled queues an update that the next render          *)
(* applies.  React runs a render's effects before it starts another        *)
(* render, so a render (and the unmount) waits for the pending effect.     *)
(* hook.listeners holds the window's scroll listeners, each the callback's *)
(* identity and the threshold it closed over.                              *)
(***************************************************************************)
\* line 34 with >= for >
onScrollOrAt(y, threshold) == y >= threshold

\* line 34: the value onScroll passes to setScrolled
onScroll(y, threshold) == y > threshold

addEventListener(ls, fn, threshold) ==
    ls \cup {[fn |-> fn, threshold |-> threshold]}

\* line 46 removing nothing (a callback that is not the one registered)
removeNoListener(ls, fn) == ls

removeEventListener(ls, fn) == {l \in ls : l.fn # fn}

\* the listeners of the window called for one scroll event, in the order
\* they were added: the updates they queue
RECURSIVE dispatch(_, _)
dispatch(ls, y) ==
    IF ls = {} THEN <<>>
    ELSE LET first == CHOOSE l \in ls : \A m \in ls : l.fn <= m.fn
         IN  <<onScroll(y, first.threshold)>> \o dispatch(ls \ {first}, y)

HookIdle == <<width, height, status, grid, mapping, next, timers, frames,
              animationFrameId, lastId, ticks, arcs, aliveRun, deadRun, other>>

InitScroll == Init /\ width = 0 /\ height = 0

\* lines 28-35 and 49: the first render of the component
HookMount ==
    /\ hook.status = "idle"
    /\ \E th \in 0 .. MaxThreshold :
         hook' = [hook EXCEPT !.status = "mounted", !.threshold = th,
                              !.scrolled = FALSE, !.callback = hook.lastFn + 1,
                              !.lastFn = @ + 1, !.effect = TRUE]
    /\ UNCHANGED HookIdle

\* lines 38-47: the cleanup of the previous effect run, if any, then the
\* effect: the listener is added and onScroll is called once
HookEffect ==
    /\ hook.status = "mounted"
    /\ hook.effect
    /\ hook' = [hook EXCEPT
                  !.listeners = addEventListener(
                                    removeEventListener(@, hook.attached),
                                    hook.callback, hook.threshold),
                  !.attached = hook.callback,
                  !.updates = Append(@, onScroll(hook.scrollY, hook.threshold)),
                  !.effect = FALSE]
    /\ UNCHANGED HookIdle

\* the user scrolls: the window calls its scroll listeners (line 34); an
\* unmounted component takes no update
Scroll ==
    /\ \E y \in 0 .. MaxScroll :
         /\ y # hook.scrollY
         /\ LET queued == IF hook.status = "mounted"
                          THEN hook.updates \o dispatch(hook.listeners, y)
                          ELSE hook.updates
            IN  /\ Len(queued) <= MaxUpdates
                /\ hook' = [hook EXCEPT !.scrollY = y, !.updates = queued]
    /\ UNCHANGED HookIdle

\* lines 30 and 49: a render for the queued updates returns the last value
HookRender ==
    /\ hook.status = "mounted"
    /\ ~hook.effect
    /\ hook.updates # <<>>
    /\ hook' = [hook EXCEPT !.scrolled = hook.updates[Len(hook.updates)],
                            !.updates = <<>>]
    /\ UNCHANGED HookIdle

\* lines 28-35: a render with another threshold; useCallback makes a new
\* onScroll, so the effect is due again
HookRethreshold ==
    /\ hook.status = "mounted"
    /\ ~hook.effect
    /\ hook.lastFn < MaxCallbacks
    /\ \E th \in 0 .. MaxThreshold :
         /\ th # hook.threshold
         /\ hook' = [hook EXCEPT
                       !.threshold = th,
                       !.scrolled = IF hook.updates = <<>> THEN @
                                    ELSE hook.updates[Len(hook.updates)],
                       !.updates = <<>>,
                       !.callback = hook.lastFn + 1,
                       !.lastFn = @ + 1,
                       !.effect = TRUE]
    /\ UNCHANGED HookIdle

\* line 46: the component unmounts and the effect's cleanup runs
HookUnmount ==
    /\ hook.status = "mounted"
    /\ ~hook.effect
    /\ hook' = [hook EXCEPT !.status = "unmounted",
                            !.listeners = removeEventListener(@, hook.attached),
                            !.updates = <<>>]
    /\ UNCHANGED HookIdle

NextScroll ==
    \/ HookMount
    \/ HookEffect
    \/ Scroll
    \/ HookRender
    \/ HookRethreshold
    \/ HookUnmount

SpecScroll == InitScroll /\ [][NextScroll]_vars

(***************************************************************************)
(* Properties.  The neighbour count is restated here from the eight        *)
(* offsets, independently of countNeighbors.                               *)
(***************************************************************************)
Offsets8 == ({-1, 0, 1} \X {-1, 0, 1}) \ {<<0, 0>>}

NeighbourAt(p, o) == <<(p[1] + o[1] + rows) % rows, (p[2] + o[2] + cols) % cols>>

LiveNeighbours(g, p) == Cardinality({o \in Offsets8 : g[NeighbourAt(p, o)].alive})

LiveSet(g) == {p \in DOMAIN g : g[p].alive}

HasGrid == status \in {"init", "mounted", "unmounted"}

\* C1: once the cleanup has run, no draw of the session runs any more and
\* its grid, opacities and drawing never change again.
StopHaltsTicks ==
    [][status = "unmounted" => (grid' = grid /\ arcs' = arcs /\ ticks' = ticks)]_vars

\* C2: every cell the step has produced is alive exactly when its cell of
\* the current generation is alive with 2 or 3 live neighbours, or dead
\* with exactly 3.
NextGenerationRule ==
    \A p \in DOMAIN next :
        next[p].alive <=>
            \/ grid[p].alive /\ LiveNeighbours(grid, p) \in {2, 3}
            \/ ~grid[p].alive /\ LiveNeighbours(grid, p) = 3

NextGenerationRuleWitness ==
    /\ mapping
    /\ DOMAIN next = Cells
    /\ \E p \in Cells :
         ~grid[p].alive /\ LiveNeighbours(grid, p) = 4 /\ ~next[p].alive
    /\ \E p \in Cells :
         grid[p].alive /\ LiveNeighbours(grid, p) \in {2, 3} /\ next[p].alive
    /\ \E p \in Cells :
         grid[p].alive /\ LiveNeighbours(grid, p) \in 4 .. 8 /\ ~next[p].alive

\* C3: while the map of a step runs, the input grid is not modified, and
\* every cell produced, in whatever order the cells are taken, is the one
\* computed from the input grid alone.
FrozenSnapshot ==
    /\ [](\A p \in DOMAIN next : next[p] = nextCell(grid, p))
    /\ [][mapping /\ mapping' => grid' = grid]_vars

FrozenSnapshotWitness ==
    /\ mapping
    /\ rows * cols >= 4
    /\ DOMAIN next = {<<rows - 1, cols - 1>>, <<0, 0>>}
    /\ next[<<rows - 1, cols - 1>>].alive # grid[<<rows - 1, cols - 1>>].alive
    /\ next[<<0, 0>>].alive # grid[<<0, 0>>].alive
    /\ \E p \in Cells \ DOMAIN next :
         nextCell(grid, p) # nextCell(mapSourceInPlace(grid, next), p)

\* C4: on every grid with at least one row and one column, countNeighbors
\* of every cell is the number of the eight wrapped offsets that hold a
\* live cell, and lies in 0..8.
CountNeighborsIsWrappedSum ==
    HasGrid =>
        \A p \in Cells :
            LET n == countNeighbors(grid, p[1], p[2])
            IN  n = LiveNeighbours(grid, p) /\ n \in 0 .. 8

CountNeighborsWitness ==
    /\ HasGrid
    /\ rows >= 2
    /\ cols >= 2
    /\ \E p \in Cells : grid[p].alive /\ countNeighbors(grid, p[1], p[2]) = 8
    /\ \E p \in Cells : countNeighbors(grid, p[1], p[2]) \in 1 .. 7

\* C5: on a grid of at least 3 x 3 cells with exactly one live cell c,
\* countNeighbors is 1 on the eight cells toroidally adjacent to c and 0 on
\* every other cell, c included; for c = (0,0) the adjacent cells include
\* (rows-1, cols-1), (rows-1, 0) and (0, cols-1).
Adjacent(p, c) ==
    /\ p # c
    /\ (p[1] - c[1] + rows) % rows \in {0, 1, rows - 1}
    /\ (p[2] - c[2] + cols) % cols \in {0, 1, cols - 1}

SingleLiveCell ==
    (HasGrid /\ rows >= 3 /\ cols >= 3) =>
        \A c \in LiveSet(grid) :
            LiveSet(grid) = {c} =>
                /\ \A p \in Cells :
                     countNeighbors(grid, p[1], p[2]) = IF Adjacent(p, c) THEN 1 ELSE 0
                /\ Cardinality({p \in Cells : countNeighbors(grid, p[1], p[2]) = 1}) = 8
                /\ c = <<0, 0>> =>
                     /\ countNeighbors(grid, rows - 1, cols - 1) = 1
                     /\ countNeighbors(grid, rows - 1, 0) = 1
                     /\ countNeighbors(grid, 0, cols - 1) = 1

SingleLiveCellWitness ==
    /\ HasGrid
    /\ rows >= 4
    /\ cols >= 4
    /\ LiveSet(grid) = {<<0, 0>>}
    /\ countNeighbors(grid, rows - 1, cols - 1) = 1
    /\ countNeighbors(grid, 2, 2) = 0

\* C6: on a grid of at least 4 x 4 cells whose live cells are exactly a
\* 2 x 2 block, wherever the block lies, no step changes the set of live
\* cells.
BlockAt(b) ==
    {b, Torus(rows, cols, <<b[1], b[2] + 1>>), Torus(rows, cols, <<b[1] + 1, b[2]>>),
        Torus(rows, cols, <<b[1] + 1, b[2] + 1>>)}

BlockIsStill ==
    [][(HasGrid /\ rows >= 4 /\ cols >= 4) =>
          \A b \in LiveSet(grid) :
              LiveSet(grid) = BlockAt(b) => LiveSet(grid') = BlockAt(b)]_vars

BlockIsStillWitness ==
    /\ rows >= 4
    /\ cols >= 4
    /\ ticks >= 3
    /\ LiveSet(grid) = BlockAt(<<rows - 1, cols - 1>>)

\* C7: on a grid of at least 5 x 5 cells, a step turns a horizontal line
\* of three live cells into the vertical line through the same centre and
\* that vertical line back into the horizontal one; the two differ.
HLineAt(c) ==
    {Torus(rows, cols, <<c[1], c[2] + cols - 1>>), c, Torus(rows, cols, <<c[1], c[2] + 1>>)}

VLineAt(c) ==
    {Torus(rows, cols, <<c[1] + rows - 1, c[2]>>), c, Torus(rows, cols, <<c[1] + 1, c[2]>>)}

BlinkerOscillates ==
    [][(ticks' = ticks + 1 /\ rows >= 5 /\ cols >= 5) =>
          \A c \in LiveSet(grid) :
              /\ LiveSet(grid) = HLineAt(c) =>
                    (LiveSet(grid') = VLineAt(c) /\ LiveSet(grid') # LiveSet(grid))
              /\ LiveSet(grid) = VLineAt(c) => LiveSet(grid') = HLineAt(c)]_vars

BlinkerOscillatesWitness ==
    /\ rows >= 5
    /\ cols >= 5
    /\ ticks = 2
    /\ LiveSet(grid) = HLineAt(<<0, 0>>)

\* C8: a cell at opacity 0 that is alive in three consecutive draws has
\* opacity 0.5 after the third and never more than 0.5 on the way; a cell
\* at opacity 0.5 that is dead in three consecutive draws has opacity 0
\* after the third and never less than 0 on the way.
ThreeTickFade ==
    \A p \in DOMAIN aliveRun :
        /\ aliveRun[p] = 3 => grid[p].opacity = visibleCap
        /\ aliveRun[p] > 0 => grid[p].opacity <= visibleCap
        /\ deadRun[p] = 3 => grid[p].opacity = 0
        /\ deadRun[p] > 0 => grid[p].opacity >= 0

ThreeTickFadeWitness ==
    /\ ticks = 3
    /\ \E p \in DOMAIN aliveRun : aliveRun[p] = 3 /\ grid[p].opacity = visibleCap
    /\ \E p \in DOMAIN deadRun : deadRun[p] = 3 /\ grid[p].opacity = 0

\* C9: in the initial grid and after every draw, every opacity lies in
\* [0, 0.5].
OpacityInRange ==
    \A p \in DOMAIN grid : grid[p].opacity \in 0 .. visibleCap

OpacityInRangeWitness ==
    /\ ticks >= 2
    /\ \E p \in Cells : grid[p].opacity = visibleCap
    /\ \E p \in Cells : grid[p].opacity = 0
    /\ \E p \in Cells : grid[p].opacity \in 1 .. visibleCap - 1

\* C10: the cells a draw emits are exactly the cells whose opacity after
\* the draw's opacity update is above 0, in row-major order, each at its
\* own row and column with its own opacity.
RowMajor == [k \in 1 .. rows * cols |-> <<(k - 1) \div cols, (k - 1) % cols>>]

VisibleCells == SelectSeq(RowMajor, LAMBDA p : grid[p].opacity > 0)

DrawnAreVisible ==
    ticks > 0 =>
        LET shown == VisibleCells
        IN  /\ Len(arcs) = Len(shown)
            /\ \A k \in 1 .. Len(arcs) :
                 arcs[k] = arcOf(shown[k][1], shown[k][2], grid[shown[k]].opacity)
            /\ \A k \in 1 .. Len(arcs) : arcs[k].opacity > 0

DrawnAreVisibleWitness ==
    /\ ticks > 0
    /\ Len(arcs) >= 2
    /\ \E p \in Cells : grid[p].opacity = 0 /\ grid[p].alive
    /\ \E p \in Cells : grid[p].opacity = 0 /\ ~grid[p].alive


\* C11: in the grid the effect builds, before the first draw, every alive
\* cell has opacity 0.5 and every dead cell has opacity 0.
InitialOpacityMatchesAlive ==
    status = "init" =>
        \A p \in DOMAIN grid :
            grid[p].opacity = IF grid[p].alive THEN visibleCap ELSE 0

\* The grids with the alive values of g and other opacities: all 0, all
\* one step of fading, all 0.5, and the opposite of the alive value.
Repaints(g) ==
    {[p \in DOMAIN g |-> [alive |-> g[p].alive, opacity |-> o]] :
         o \in {0, transitionSpeed, visibleCap}}
    \cup {[p \in DOMAIN g |->
              [alive |-> g[p].alive,
               opacity |-> IF g[p].alive THEN 0 ELSE visibleCap]]}

\* C12: the alive values a draw produces depend on the alive values it
\* started from only: the same draw on a grid with the same alive values
\* and any other opacities produces the same alive values, so two sessions
\* that agree on alive values at the start agree on them in every generation.
OpacityNeverSteersLife ==
    [][ticks' = ticks + 1 =>
         \A h \in Repaints(grid) :
             LiveSet(nextGeneration(fadeAndDraw(h, 0, <<>>).grid)) = LiveSet(grid')]_vars

OpacityNeverSteersLifeWitness ==
    /\ ticks >= 2
    /\ \E p \in Cells : grid[p].alive /\ grid[p].opacity = 0
    /\ \E p \in Cells : ~grid[p].alive /\ grid[p].opacity > 0
    /\ \E p \in Cells : grid[p].alive /\ grid[p].opacity > 0

\* C13: every cell grid.map has produced carries the opacity of the cell
\* at the same place in the grid the map runs on, whether the cell
\* survives, dies, is born or stays dead.
StepKeepsOpacity ==
    \A p \in DOMAIN next : next[p].opacity = grid[p].opacity

StepKeepsOpacityWitness ==
    /\ mapping
    /\ DOMAIN next = Cells
    /\ \E p \in Cells : grid[p].alive /\ ~next[p].alive /\ grid[p].opacity > 0
    /\ \E p \in Cells : grid[p].alive /\ next[p].alive
    /\ \E p \in Cells : ~grid[p].alive /\ ~next[p].alive /\ grid[p].opacity > 0

\* C20: the grid has a cell at exactly the coordinates (r, c) with
\* 0 <= r < R and 0 <= c < C, where R and C are the largest numbers of
\* whole cells that fit in the height and in the width, from the moment it
\* is built and in every generation.
ShapeIsFloor ==
    HasGrid =>
        \E R \in 0 .. MaxSide + 1, C \in 0 .. MaxSide + 1 :
            /\ R * cellSize <= height /\ height < (R + 1) * cellSize
            /\ C * cellSize <= width /\ width < (C + 1) * cellSize
            /\ DOMAIN grid = (0 .. R - 1) \X (0 .. C - 1)

ShapeIsFloorWitness ==
    /\ ticks >= 2
    /\ height % cellSize # 0
    /\ width % cellSize # 0
    /\ rows >= 2
    /\ cols >= 2
    /\ DOMAIN grid = Cells


\* Number of draws that have begun: the finished ones and the one that is
\* inside grid.map.
begun == ticks + (IF mapping THEN 1 ELSE 0)

\* C14: at every moment at most one continuation (a timer or the frame it
\* requested) is pending and none is pending while a draw is running, so a
\* continuation is created only once the draw has its next generation; and
\* the draws after the first are matched one to one by the timer expiries
\* before them.
OneContinuation ==
    /\ timers + Cardinality(frames) <= 1
    /\ mapping => timers = 0 /\ frames = {}
    /\ lastId <= ticks
    /\ begun <= lastId + 1

OneContinuationWitness ==
    /\ mapping
    /\ ticks >= 2
    /\ lastId = ticks
    /\ next # <<>>

\* C15: the session moves from idle to running (through the freshly built
\* grid) and from running to stopped only, and once stopped it stays
\* stopped and runs no draw.
LifecycleForward ==
    [][/\ status = "idle" => status' \in {"idle", "init", "noctx"}
       /\ status = "init" => status' \in {"init", "mounted"}
       /\ status = "mounted" => status' \in {"mounted", "unmounted"}
       /\ status = "unmounted" => status' = "unmounted" /\ ticks' = ticks]_vars

SecondStopChangesNothing ==
    [][(status = "unmounted" /\ ticks' = ticks /\ lastId' = lastId)
         => (frames' = frames /\ timers' = timers /\ grid' = grid)]_vars

\* The first component's session, as the record the second one is.
session ==
    [status |-> status, grid |-> grid, timers |-> timers, frames |-> frames,
     animationFrameId |-> animationFrameId, ticks |-> ticks, arcs |-> arcs]

\* h is the generation after g: alive by the rule over the eight wrapped
\* neighbours, opacity one fade step on.
SoloStep(g, h) ==
    /\ DOMAIN h = DOMAIN g
    /\ \A p \in DOMAIN g :
         /\ h[p].alive = IF g[p].alive THEN LiveNeighbours(g, p) \in {2, 3}
                         ELSE LiveNeighbours(g, p) = 3
         /\ h[p].opacity = fade(g[p])

\* C19: with two sessions on the page, a step of one session (a draw, a
\* timer expiry, a frame, a cleanup) leaves every part of the other session
\* as it was, and each draw takes a session's grid to the generation that
\* grid alone determines.
PairIsolated ==
    [][/\ session' # session => other' = other
       /\ ticks' = ticks + 1 => SoloStep(grid, grid')
       /\ other.ticks' = other.ticks + 1 => SoloStep(other.grid, other.grid')]_vars

PairIsolatedWitness ==
    /\ status = "unmounted"
    /\ ticks >= 1
    /\ other.status = "mounted"
    /\ other.ticks >= 2
    /\ other.frames # {}
    /\ other.grid # grid
    /\ rows * cols >= 2


\* The opacity rule stated on its own: towards 0.5 while alive and below
\* 0.5, towards 0 while dead and above 0, by transitionSpeed, else as is.
TowardsTarget(cell) ==
    IF cell.alive /\ cell.opacity < visibleCap
        THEN (IF cell.opacity + transitionSpeed > visibleCap THEN visibleCap
              ELSE cell.opacity + transitionSpeed)
    ELSE IF ~cell.alive /\ cell.opacity > 0
        THEN (IF cell.opacity - transitionSpeed < 0 THEN 0
              ELSE cell.opacity - transitionSpeed)
    ELSE cell.opacity

\* C23: every draw takes each cell's opacity to the value of the rule
\* applied to the cell's alive value and opacity before the draw.
OpacityRule ==
    [][ticks' = ticks + 1 =>
         \A p \in DOMAIN grid : grid'[p].opacity = TowardsTarget(grid[p])]_vars

OpacityRuleWitness ==
    /\ ticks >= 3
    /\ \E p \in Cells : aliveRun[p] = 3 /\ grid[p].opacity = visibleCap
    /\ \E p \in Cells : deadRun[p] = 3 /\ grid[p].opacity = 0
    /\ \E p \in Cells : deadRun[p] = 1 /\ grid[p].opacity = visibleCap - transitionSpeed

\* Number of the eight offsets that lead from p back to p by wraparound.
SelfOffsets(p) == Cardinality({o \in Offsets8 : NeighbourAt(p, o) = p})

\* C24: on a grid of one row or one column countNeighbors is still the
\* count over the eight wrapped offsets: it lies in 0..8, each offset other
\* than (0,0) that leads back to the cell counts the cell itself, and on
\* the 1 x 1 grid a live cell has count 8.
DegenerateWrap ==
    (HasGrid /\ (rows = 1 \/ cols = 1)) =>
        \A p \in Cells :
            LET n == countNeighbors(grid, p[1], p[2])
                own == SelfOffsets(p)
                others == Cardinality({o \in Offsets8 :
                              NeighbourAt(p, o) # p /\ grid[NeighbourAt(p, o)].alive})
            IN  /\ n \in 0 .. 8
                /\ own >= 2
                /\ n = others + (IF grid[p].alive THEN own ELSE 0)

DegenerateWrapWitness ==
    /\ HasGrid
    /\ rows = 1
    /\ cols = 2
    /\ ticks >= 1
    /\ \E p \in Cells : grid[p].alive /\ countNeighbors(grid, p[1], p[2]) = 2

\* C26: a cleanup that runs while the frame requested by the timer is
\* pending cancels that frame and leaves no timer, and from a stopped
\* session with nothing pending no draw runs and nothing is scheduled.
PendingFrameCancelled ==
    [][/\ (status = "mounted" /\ frames # {} /\ status' = "unmounted")
            => (frames' = {} /\ timers' = 0)
       /\ (status = "unmounted" /\ frames = {} /\ timers = 0)
            => (ticks' = ticks /\ grid' = grid /\ frames' = {} /\ timers' = 0)]_vars

PendingFrameCancelledWitness ==
    /\ status = "unmounted"
    /\ frames = {}
    /\ timers = 0
    /\ lastId = ticks
    /\ ticks >= 2

\* Opacities of the arcs drawn at the centre of cell p.
DrawnAt(as, p) ==
    {as[k].opacity : k \in {k \in 1 .. Len(as) :
                              /\ as[k].x = p[2] * cellSize + cellSize \div 2
                              /\ as[k].y = p[1] * cellSize + cellSize \div 2}}

\* C27: a draw shows the generation it starts from.  A dead cell at
\* opacity 0 that the draw's step brings to life is not drawn by that draw
\* and is drawn at 0.2 by the next; a live cell at 0.5 that the step kills
\* is drawn at 0.5 by that draw and at 0.3 by the next.
DrawBeforeStep ==
    [][ticks' = ticks + 1 =>
         \A p \in DOMAIN grid :
             /\ (~grid[p].alive /\ grid[p].opacity = 0 /\ grid'[p].alive)
                    => (DrawnAt(arcs', p) = {} /\ grid'[p].opacity = 0)
             /\ (grid[p].alive /\ grid[p].opacity = 0)
                    => DrawnAt(arcs', p) = {transitionSpeed}
             /\ (grid[p].alive /\ grid[p].opacity = visibleCap /\ ~grid'[p].alive)
                    => (DrawnAt(arcs', p) = {visibleCap}
                        /\ grid'[p].opacity = visibleCap)
             /\ (~grid[p].alive /\ grid[p].opacity = visibleCap)
                    => DrawnAt(arcs', p) = {visibleCap - transitionSpeed}]_vars

DrawBeforeStepWitness ==
    /\ ticks >= 2
    /\ \E p \in Cells : aliveRun[p] = 1 /\ DrawnAt(arcs, p) = {transitionSpeed}
    /\ \E p \in Cells : deadRun[p] = 1 /\ DrawnAt(arcs, p) = {visibleCap - transitionSpeed}

\* C30: every arc of a draw is at the centre of its cell, strictly inside
\* the canvas, and no two arcs of one draw have the same centre.
CentresInside ==
    ticks > 0 =>
        LET shown == VisibleCells
        IN  /\ Len(arcs) = Len(shown)
            /\ \A k \in 1 .. Len(arcs) :
                 /\ 2 * arcs[k].x = 2 * shown[k][2] * cellSize + cellSize
                 /\ 2 * arcs[k].y = 2 * shown[k][1] * cellSize + cellSize
                 /\ 0 < arcs[k].x /\ arcs[k].x < width
                 /\ 0 < arcs[k].y /\ arcs[k].y < height
            /\ \A k, l \in 1 .. Len(arcs) :
                 k # l => <<arcs[k].x, arcs[k].y>> # <<arcs[l].x, arcs[l].y>>

CentresInsideWitness ==
    /\ ticks > 0
    /\ rows # cols
    /\ Len(arcs) = rows * cols
    /\ rows >= 2
    /\ cols >= 2


\* The grid g with every cell moved by d, rows and columns wrapping.
Shifted(g, d) ==
    [p \in DOMAIN g |-> g[<<(p[1] - d[1] + rows) % rows, (p[2] - d[2] + cols) % cols>>]]

\* The set of cells S with every cell moved by d, wrapping.
ShiftedSet(S, d) == {<<(p[1] + d[1]) % rows, (p[2] + d[2]) % cols>> : p \in S}

\* The shifts tried on a grid: all of them on a grid of at most MaxCells
\* cells; on a larger grid the shifts by one row, by one column and by both,
\* of which every shift is a composition (the grids the sessions start
\* from are closed under shifts, so a composition is covered step by step).
Shifts ==
    IF rows * cols <= MaxCells THEN Cells
    ELSE {<<1, 0>>, <<0, 1>>, <<1, 1>>}

\* C28: for every shift of the torus, the next generation of the shifted
\* grid has the alive values of the shifted next generation, the next
\* generation being the one the draw produces.
StepCommutesWithShift ==
    [][(ticks' = ticks + 1 /\ rows > 0 /\ cols > 0) =>
         \A d \in Shifts :
             LiveSet(nextGeneration(Shifted(grid, d))) = ShiftedSet(LiveSet(grid'), d)]_vars

StepCommutesWithShiftWitness ==
    /\ HasGrid
    /\ rows >= 3
    /\ cols >= 3
    /\ ticks >= 1
    /\ grid[<<0, 0>>].alive
    /\ \E p \in Cells : ~grid[p].alive /\ nextGeneration(grid)[p].alive
    /\ \E p \in Cells : grid[p].alive /\ ~nextGeneration(grid)[p].alive

\* The grid after one draw of g.
afterDraw(g) == nextGeneration(fadeAndDraw(g, 0, <<>>).grid)

\* C29: a draw of a grid with no live cell gives again a grid with no live
\* cell, three draws bring every opacity to 0, and a draw of a dead grid
\* whose opacities are all 0 draws nothing.
EmptyIsAbsorbing ==
    [][(HasGrid /\ LiveSet(grid) = {} /\ ticks' = ticks + 1) =>
         /\ LiveSet(grid') = {}
         /\ grid' = afterDraw(grid)
         /\ afterDraw(afterDraw(grid'))
                = [p \in DOMAIN grid |-> [alive |-> FALSE, opacity |-> 0]]
         /\ (\A p \in DOMAIN grid : grid[p].opacity = 0) => arcs' = <<>>]_vars

EmptyIsAbsorbingWitness ==
    /\ ticks = MaxTicks
    /\ Cells # {}
    /\ LiveSet(grid) = {}
    /\ arcs = <<>>
    /\ \A p \in Cells : deadRun[p] = 3 /\ grid[p].opacity = 0


\* C25: in a running session, as long as it is not stopped, every draw is
\* followed by another draw (up to the MaxTicks draws the model follows),
\* with no step other than the timer and the frame it requests.
TicksSelfSchedule ==
    \A k \in 1 .. MaxTicks - 1 :
        (status = "mounted" /\ ticks = k) ~> (ticks = k + 1 \/ status = "unmounted")

TicksSelfScheduleWitness ==
    /\ status = "mounted"
    /\ ticks = MaxTicks
    /\ lastId = MaxTicks - 1
    /\ timers = 1


\* C21: whenever the component is mounted with its effect run and every
\* queued update rendered (so right after mount and after each scroll
\* event), the flag it returns is window.scrollY > threshold for the
\* threshold of the last render: false at the threshold itself and below.
FlagIsBeyondThreshold ==
    (hook.status = "mounted" /\ ~hook.effect /\ hook.updates = <<>>) =>
        /\ hook.scrolled = (hook.scrollY > hook.threshold)
        /\ hook.scrollY <= hook.threshold => ~hook.scrolled

FlagIsBeyondThresholdWitness ==
    /\ hook.status = "mounted"
    /\ ~hook.effect
    /\ hook.updates = <<>>
    /\ hook.scrollY = hook.threshold
    /\ hook.threshold > 0
    /\ ~hook.scrolled
    /\ hook.lastFn >= 2

\* C22: the window never has more than one scroll listener of the hook,
\* also when the threshold changes; after unmount it has none, and the
\* flag does not change any more.
OneListener ==
    /\ [](Cardinality(hook.listeners) <= 1)
    /\ [](hook.status = "unmounted" => hook.listeners = {})
    /\ [][hook.status = "unmounted" =>
            (hook'.scrolled = hook.scrolled /\ hook'.updates = <<>>)]_vars

OneListenerWitness ==
    /\ hook.status = "unmounted"
    /\ hook.lastFn >= 2
    /\ hook.scrolled
    /\ hook.scrollY = 0
    /\ hook.listeners = {}

=============================================================================
